---- MODULE Spec2Model ----
(***************************************************************************)
(* Model of the rolling-stats crate: a byte stream written in arbitrary    *)
(* chunks is reconstructed into i32 values (PartialDataBuffer in the       *)
(* default build, Reconstructor with feature "reconstructor") which feed a *)
(* window of the WINDOW_SIZE most recent values; mean() and std_dev() are  *)
(* computed over the window.                                               *)
(*                                                                         *)
(* Both builds of the facade are run side by side on the same chunks:      *)
(*   intermediate_buffer, buffer, result      - default build              *)
(*   reconstructor, r_buffer, r_result        - feature "reconstructor"    *)
(* E is the decoding scheme the instances were built with.  The history    *)
(* variables record what the calls did: stream is every byte handed to     *)
(* write, decoded / r_decoded every value a build appended to its window,  *)
(* decode_failed whether from_raw failed during the last write,            *)
(* decode_lens the lengths of the slices the last write handed to from_raw,*)
(* consumed what PartialDataBuffer::consume returned in the last write,    *)
(* peak the largest length the window's deque had during the last write.   *)
(* standalone is a Reconstructor used without the facade and s_result what *)
(* its last call returned; query is the last query made of the window      *)
(* since the last write; call is one call of from_raw on its own.          *)
(***************************************************************************)
EXTENDS Integers, Sequences, FiniteSets, TLC

VARIABLES E, stream, intermediate_buffer, buffer, result,
          reconstructor, r_buffer, r_result,
          decoded, r_decoded, decode_failed,
          decode_lens, consumed, peak,
          standalone, s_result, query, call

vars == <<E, stream, intermediate_buffer, buffer, result,
          reconstructor, r_buffer, r_result,
          decoded, r_decoded, decode_failed,
          decode_lens, consumed, peak,
          standalone, s_result, query, call>>

(***************************************************************************)
(* Bounds of the input space.                                              *)
(***************************************************************************)
\* every byte stream of at most MaxStream bytes over Bytes is an input
MaxStream == 5

\* the 16-byte streams of the tests and examples are followed by their own
\* first MaxTail bytes, a fifth value or a part of it
MaxTail == 4

Bytes == {0, 1, 255}

\* every stream of MaxValues encoded values of SmallValues is an input
MaxValues == 3

SmallValues == {-1, 0, 2}

\* every byte sequence of at most MaxRaw bytes over RawBytes is an argument
\* of from_raw
MaxRaw == 5

RawBytes == {0, 1, 127, 128, 255}

(***************************************************************************)
(* Program constants.                                                      *)
(***************************************************************************)
\* std::mem::size_of::<i32>()
TypeSize == 4

\* the window capacity the crate's tests and examples instantiate
WINDOW_SIZE == 3

I32_MAX == 2147483647
I32_MIN == -2147483647 - 1

(***************************************************************************)
(* Sequences helpers (slices as Rust writes them, 0-based, end exclusive). *)
(***************************************************************************)
Slice(s, from, to) == SubSeq(s, from + 1, to)

Min(a, b) == IF a < b THEN a ELSE b
Max(a, b) == IF a > b THEN a ELSE b

RECURSIVE SeqsUpTo(_, _)
SeqsUpTo(S, n) ==
    IF n = 0 THEN {<<>>}
    ELSE LET shorter == SeqsUpTo(S, n - 1)
         IN  shorter \cup {Append(s, x) : s \in {t \in shorter : Len(t) = n - 1}, x \in S}

IsPrefix(s, t) == Len(s) <= Len(t) /\ SubSeq(t, 1, Len(s)) = s

(***************************************************************************)
(* raw.rs: the decoding schemes.                                           *)
(***************************************************************************)
Ok(v) == [ok |-> TRUE, v |-> v]
Err == [ok |-> FALSE, v |-> 0]

\* the i32 whose two's-complement bytes are b3 (most significant) .. b0
I32FromBytes(b3, b2, b1, b0) ==
    (IF b3 >= 128 THEN b3 - 256 ELSE b3) * 16777216 + b2 * 65536 + b1 * 256 + b0

from_le_bytes(raw) == I32FromBytes(raw[4], raw[3], raw[2], raw[1])

\* the bytes taken least significant first
from_be_bytes_reversed(raw) == I32FromBytes(raw[4], raw[3], raw[2], raw[1])

from_be_bytes(raw) == I32FromBytes(raw[1], raw[2], raw[3], raw[4])

LittleEndian_from_raw(raw) ==
    IF Len(raw) < TypeSize THEN Err ELSE Ok(from_le_bytes(Slice(raw, 0, 4)))

BigEndian_from_raw(raw) ==
    IF Len(raw) < TypeSize THEN Err ELSE Ok(from_be_bytes(Slice(raw, 0, 4)))

\* A scheme a user of the crate supplies through the ConverterFromRaw trait:
\* the trait lets from_raw fail on any input.  This one decodes big-endian
\* and rejects the groups whose second byte is 255.
Rejecting_from_raw(raw) ==
    IF Len(raw) < TypeSize \/ raw[2] = 255 THEN Err
    ELSE Ok(from_be_bytes(Slice(raw, 0, 4)))

from_raw(e, raw) ==
    CASE e = "LittleEndian" -> LittleEndian_from_raw(raw)
      [] e = "BigEndian"    -> BigEndian_from_raw(raw)
      [] OTHER              -> Rejecting_from_raw(raw)

ShippedSchemes == {"LittleEndian", "BigEndian"}
AllSchemes == ShippedSchemes \cup {"Rejecting"}

(***************************************************************************)
(* slice::chunks_exact                                                     *)
(***************************************************************************)
\* slice::chunks for chunks_exact: a shorter last group is yielded too
chunks_any(s, n) ==
    [k \in 1..((Len(s) + n - 1) \div n) |-> Slice(s, (k - 1) * n, Min(k * n, Len(s)))]

chunks_exact(s, n) == [k \in 1..(Len(s) \div n) |-> Slice(s, (k - 1) * n, k * n)]

chunks_remainder(s, n) == Slice(s, Len(s) - (Len(s) % n), Len(s))

(***************************************************************************)
(* Option<T> is a sequence of length 0 (None) or 1 (Some).                 *)
(***************************************************************************)
None == <<>>
Some(v) == <<v>>

(***************************************************************************)
(* partial_data_buffer.rs                                                  *)
(***************************************************************************)
type_size == TypeSize

\* line 46 with <= for <: a chunk that completes a value is absorbed too
absorbs_le(buf, raw) == Len(buf) + Len(raw) <= type_size

\* if self.buffer.len() + raw.len() < self.type_size()
absorbs(buf, raw) == Len(buf) + Len(raw) < type_size

\* line 47 replacing the buffer by the chunk instead of extending it
absorb_replace(buf, raw) == raw

\* self.buffer.extend(raw)
absorb(buf, raw) == buf \o raw

\* line 66 without the offset
remainder_of_chunk(raw, offset) == Len(raw) % type_size

\* (raw.len() - offset) % self.type_size()
remainder_of(raw, offset) == (Len(raw) - offset) % type_size

\* lines 51-55 without the test for an empty buffer
leading_offset_always(buf) == type_size - Len(buf)

\* let offset = if !self.buffer.is_empty() { type_size - len } else { 0 }
leading_offset(buf) == IF buf # <<>> THEN type_size - Len(buf) ELSE 0

\* PartialDataBuffer::consume on a buffer holding buf.  The outcome names
\* the buffer afterwards, the reconstructed value, the returned slice, and
\* whether the unwrap() of the leading decode panicked (the buffer then
\* holds what it held when the panic started), and the lengths of the
\* slices handed to from_raw.
consume(e, buf, raw) ==
    IF absorbs(buf, raw)
    THEN [buffer |-> absorb(buf, raw), value |-> None, rest |-> <<>>,
          panic |-> FALSE, lens |-> <<>>]
    ELSE LET offset == leading_offset(buf)
             extended == buf \o Slice(raw, 0, offset)
             leading == from_raw(e, extended)
         IN  IF offset > 0 /\ ~leading.ok
             THEN [buffer |-> extended, value |-> None, rest |-> <<>>,
                   panic |-> TRUE, lens |-> <<Len(extended)>>]
             ELSE LET reconstructed_value == IF offset > 0 THEN Some(leading.v) ELSE None
                      cleared == IF offset > 0 THEN <<>> ELSE buf
                      remainder == remainder_of(raw, offset)
                      kept == IF remainder > 0
                              THEN cleared \o Slice(raw, Len(raw) - remainder, Len(raw))
                              ELSE cleared
                  IN  [buffer |-> kept,
                       value  |-> reconstructed_value,
                       rest   |-> Slice(raw, offset, Len(raw) - remainder),
                       panic  |-> FALSE,
                       lens   |-> IF offset > 0 THEN <<Len(extended)>> ELSE <<>>]

(***************************************************************************)
(* Decoding a sequence of complete groups in order, as the lazy iterators  *)
(* of lib.rs and reconstructor.rs do: the values of the groups before the  *)
(* first failing one, whether a group failed, and the lengths of the       *)
(* groups handed to from_raw.                                              *)
(***************************************************************************)
\* a failing group skipped instead of ending the decoding
RECURSIVE DecodeGroups_skipping(_, _, _)
DecodeGroups_skipping(e, groups, k) ==
    IF k > Len(groups) THEN [values |-> <<>>, failed |-> FALSE, lens |-> <<>>]
    ELSE LET d == from_raw(e, groups[k])
             more == DecodeGroups_skipping(e, groups, k + 1)
         IN  [values |-> (IF d.ok THEN <<d.v>> ELSE <<>>) \o more.values,
              failed |-> ~d.ok \/ more.failed,
              lens   |-> <<Len(groups[k])>> \o more.lens]

RECURSIVE DecodeGroups(_, _, _)
DecodeGroups(e, groups, k) ==
    IF k > Len(groups) THEN [values |-> <<>>, failed |-> FALSE, lens |-> <<>>]
    ELSE LET d == from_raw(e, groups[k])
         IN  IF ~d.ok
             THEN [values |-> <<>>, failed |-> TRUE, lens |-> <<Len(groups[k])>>]
             ELSE LET more == DecodeGroups(e, groups, k + 1)
                  IN  [values |-> <<d.v>> \o more.values,
                       failed |-> more.failed,
                       lens   |-> <<Len(groups[k])>> \o more.lens]

(***************************************************************************)
(* lib.rs: the window                                                      *)
(***************************************************************************)
\* the loop bound off by one
RECURSIVE Evict_late(_)
Evict_late(b) == IF Len(b) > WINDOW_SIZE + 1 THEN Evict_late(Tail(b)) ELSE b

\* pop_back for pop_front
RECURSIVE Evict_newest(_)
Evict_newest(b) ==
    IF Len(b) > WINDOW_SIZE THEN Evict_newest(SubSeq(b, 1, Len(b) - 1)) ELSE b

\* while self.buffer.len() > WINDOW_SIZE { self.buffer.pop_front(); }
RECURSIVE Evict(_)
Evict(b) == IF Len(b) > WINDOW_SIZE THEN Evict(Tail(b)) ELSE b

RetNone == [kind |-> "None", n |-> 0]
RetOk(n) == [kind |-> "Ok", n |-> n]
RetErr == [kind |-> "Err", n |-> 0]
\* flush returned Ok(())
RetFlushed == [kind |-> "Flushed", n |-> 0]
RetPanic == [kind |-> "Panic", n |-> 0]

\* RollingStats::write, default build, on the state (ib, win): the state
\* afterwards and the result, with the values appended to the window, what
\* consume returned, the lengths handed to from_raw and the largest length
\* of the deque on the way
write(e, ib, win, buf) ==
    LET c == consume(e, ib, buf)
    IN  IF c.panic
        THEN [intermediate_buffer |-> c.buffer, buffer |-> win,
              result |-> RetPanic, values |-> <<>>, failed |-> TRUE,
              consumed |-> [value |-> c.value, rest |-> c.rest],
              lens |-> c.lens, peak |-> Len(win)]
        ELSE LET pushed == win \o c.value
                 parsed == DecodeGroups(e, chunks_exact(c.rest, TypeSize), 1)
                 extended == pushed \o parsed.values
             IN  [intermediate_buffer |-> c.buffer,
                  buffer |-> IF parsed.failed THEN extended ELSE Evict(extended),
                  result |-> IF parsed.failed THEN RetPanic ELSE RetOk(Len(buf)),
                  values |-> c.value \o parsed.values,
                  failed |-> parsed.failed,
                  consumed |-> [value |-> c.value, rest |-> c.rest],
                  lens |-> c.lens \o parsed.lens,
                  peak |-> Len(extended)]

(***************************************************************************)
(* reconstructor.rs                                                        *)
(***************************************************************************)
\* line 76 missing: the completed bytes stay in the intermediate buffer
keep_after_leading(ib, offset) == ib

\* self.intermediate_buffer.clear() after the leading value (offset > 0)
clear_after_leading(ib, offset) == IF offset > 0 THEN <<>> ELSE ib

\* Reconstructor::write on rec = [intermediate_buffer, buffer]
Reconstructor_write(e, rec, buf) ==
    IF Len(buf) + Len(rec.intermediate_buffer) < TypeSize
    THEN [rec |-> [rec EXCEPT !.intermediate_buffer = @ \o buf],
          result |-> RetOk(Len(buf)), lens |-> <<>>]
    ELSE LET offset == IF rec.intermediate_buffer # <<>>
                       THEN TypeSize - Len(rec.intermediate_buffer) ELSE 0
             data == rec.intermediate_buffer \o Slice(buf, 0, offset)
             first == from_raw(e, data)
         IN  IF offset > 0 /\ ~first.ok
             THEN [rec |-> rec, result |-> RetPanic, lens |-> <<Len(data)>>]
             ELSE LET pushed == IF offset > 0 THEN Append(rec.buffer, first.v)
                                ELSE rec.buffer
                      cleared == clear_after_leading(rec.intermediate_buffer, offset)
                      tail == Slice(buf, offset, Len(buf))
                      kept == cleared \o chunks_remainder(tail, TypeSize)
                      parsed == DecodeGroups(e, chunks_exact(tail, TypeSize), 1)
                  IN  [rec |-> [intermediate_buffer |-> kept,
                                buffer |-> pushed \o parsed.values],
                       result |-> IF parsed.failed THEN RetErr ELSE RetOk(Len(buf)),
                       lens |-> (IF offset > 0 THEN <<Len(data)>> ELSE <<>>)
                                \o parsed.lens]

\* a flush that keeps the decoded values
Reconstructor_flush_keeping(rec) == rec

\* a flush that clears the incomplete trailing bytes too
Reconstructor_flush_all(rec) == [intermediate_buffer |-> <<>>, buffer |-> <<>>]

Reconstructor_flush(rec) == [rec EXCEPT !.buffer = <<>>]

\* the count of the bytes decoded returned for the count of the bytes taken
r_write_decoded_count(e, rec, win, buf) ==
    LET w == Reconstructor_write(e, rec, buf)
    IN  IF w.result.kind = "Panic"
        THEN [reconstructor |-> w.rec, buffer |-> win, result |-> RetPanic,
              values |-> <<>>, failed |-> TRUE,
              lens |-> w.lens, peak |-> Len(win)]
        ELSE [reconstructor |-> Reconstructor_flush(w.rec),
              buffer |-> Evict(win \o w.rec.buffer),
              result |-> IF w.result.kind = "Ok"
                         THEN RetOk(TypeSize * Len(w.rec.buffer)) ELSE w.result,
              values |-> w.rec.buffer,
              failed |-> w.result.kind = "Err",
              lens |-> w.lens, peak |-> Len(win \o w.rec.buffer)]

\* RollingStats::write, feature "reconstructor", on the state (rec, win)
r_write(e, rec, win, buf) ==
    LET w == Reconstructor_write(e, rec, buf)
    IN  IF w.result.kind = "Panic"
        THEN [reconstructor |-> w.rec, buffer |-> win, result |-> RetPanic,
              values |-> <<>>, failed |-> TRUE,
              lens |-> w.lens, peak |-> Len(win)]
        ELSE [reconstructor |-> Reconstructor_flush(w.rec),
              buffer |-> Evict(win \o w.rec.buffer),
              result |-> w.result,
              values |-> w.rec.buffer,
              failed |-> w.result.kind = "Err",
              lens |-> w.lens, peak |-> Len(win \o w.rec.buffer)]

\* RollingStats::len
len(win) == Len(win)

(***************************************************************************)
(* i32 addition.  With overflow checks (debug profile) an overflowing      *)
(* `acc + *item` panics; without them (release profile) it wraps modulo    *)
(* 2^32.  The sums are formed so that no intermediate leaves the i32 range.*)
(***************************************************************************)
add_overflows(a, b) ==
    \/ a > 0 /\ b > 0 /\ a > I32_MAX - b
    \/ a < 0 /\ b < 0 /\ a < I32_MIN - b

wrapping_add(a, b) ==
    IF a > 0 /\ b > 0 /\ a > I32_MAX - b THEN (a + I32_MIN) + (b + I32_MIN)
    ELSE IF a < 0 /\ b < 0 /\ a < I32_MIN - b THEN (a - I32_MIN) + (b - I32_MIN)
    ELSE a + b

(***************************************************************************)
(* convertf32.rs: `*self as f32` rounds to the nearest value with a 24-bit *)
(* significand, ties to even.  An f32 with an integral value is the pair   *)
(* [m, e] standing for m * 2^e, m odd or zero.                             *)
(***************************************************************************)
RECURSIVE Canonical(_, _)
Canonical(m, e) ==
    IF m = 0 THEN [m |-> 0, e |-> 0]
    ELSE IF m % 2 = 0 THEN Canonical(m \div 2, e + 1)
    ELSE [m |-> m, e |-> e]

RECURSIVE ExcessBits(_)
\* how many bits a magnitude has beyond 24
ExcessBits(a) == IF a < 16777216 THEN 0 ELSE 1 + ExcessBits(a \div 2)

convert(x) ==
    IF x = I32_MIN THEN [m |-> -1, e |-> 31]
    ELSE LET a == IF x < 0 THEN -x ELSE x
             k == ExcessBits(a)
             q == 2 ^ k
             hi == a \div q
             lo == a % q
             up == k > 0 /\ (2 * lo > q \/ (2 * lo = q /\ hi % 2 = 1))
             r == IF up THEN hi + 1 ELSE hi
         IN  Canonical(IF x < 0 THEN -r ELSE r, k)

(***************************************************************************)
(* lib.rs: impl Statistics                                                 *)
(***************************************************************************)
\* self.buffer.iter().fold(T::default(), |acc, item| acc + *item)
RECURSIVE fold_add(_, _, _, _)
fold_add(win, k, acc, overflow_checks) ==
    IF k > Len(win) THEN [panic |-> FALSE, sum |-> acc]
    ELSE IF overflow_checks /\ add_overflows(acc, win[k])
         THEN [panic |-> TRUE, sum |-> acc]
         ELSE fold_add(win, k + 1, wrapping_add(acc, win[k]), overflow_checks)

\* Statistics::mean: the f32 quotient num / den of the converted sum and the
\* divisor (sum is the i32 the fold returned)
mean(win, overflow_checks) ==
    LET f == fold_add(win, 1, 0, overflow_checks)
    IN  [panic |-> f.panic,
         sum   |-> f.sum,
         num   |-> convert(f.sum),
         den   |-> Max(Min(WINDOW_SIZE, Len(win)), 1)]

RECURSIVE SumSquaredDeviations(_, _, _, _)
\* sum over the items of (item * d - s)^2, that is d^2 * (item - s/d)^2
SumSquaredDeviations(win, k, s, d) ==
    IF k > Len(win) THEN 0
    ELSE (win[k] * d - s) * (win[k] * d - s) + SumSquaredDeviations(win, k + 1, s, d)

\* the divisor without Bessel's correction
population_divisor(n) == Max(Min(WINDOW_SIZE, n), 1)

\* WINDOW_SIZE.min(self.buffer.len()).max(2) - 1
std_dev_divisor(n) == Max(Min(WINDOW_SIZE, n), 2) - 1

\* Statistics::std_dev: the square root of num / den, in real arithmetic
\* (exact where the window's values and their sum are exact in f32)
std_dev(win, overflow_checks) ==
    LET m == mean(win, overflow_checks)
        divisor == std_dev_divisor(Len(win))
    IN  IF m.panic THEN [panic |-> TRUE, num |-> 0, den |-> 1, divisor |-> divisor]
        ELSE [panic |-> FALSE,
              num |-> SumSquaredDeviations(win, 1, m.sum, m.den),
              den |-> m.den * m.den * divisor,
              divisor |-> divisor]


(***************************************************************************)
(* The inputs: every stream over Bytes of at most MaxStream bytes, and the *)
(* streams of the crate's tests and examples with a partial trailing value.*)
(***************************************************************************)
ShortStreams == SeqsUpTo(Bytes, MaxStream)

\* lib.rs test_mean / test_std_dev: 1, 2, 3, 4 big-endian
BigEndianStream == <<0, 0, 0, 1, 0, 0, 0, 2, 0, 0, 0, 3, 0, 0, 0, 4>>

\* lib.rs crate example: 1, 2, 3, 4 little-endian
LittleEndianStream == <<1, 0, 0, 0, 2, 0, 0, 0, 3, 0, 0, 0, 4, 0, 0, 0>>

\* values at the ends of the i32 range in both byte orders
WideStream == <<127, 255, 255, 127, 127, 255, 255, 127,
                128, 0, 0, 128, 255, 255, 255, 255>>

\* a stream whose third group the Rejecting scheme refuses
RejectedStream == <<0, 0, 0, 5, 0, 0, 0, 6, 0, 255, 0, 7, 0, 0, 0, 8>>

\* the four bytes of a small value in either byte order
BigEndianBytes(v) == IF v >= 0 THEN <<0, 0, 0, v>> ELSE <<255, 255, 255, 256 + v>>

LittleEndianBytes(v) == IF v >= 0 THEN <<v, 0, 0, 0>> ELSE <<256 + v, 255, 255, 255>>

RECURSIVE Concat(_, _)
Concat(groups, k) == IF k > Len(groups) THEN <<>> ELSE groups[k] \o Concat(groups, k + 1)

\* the streams of MaxValues values drawn from SmallValues
ValueStreams ==
    UNION {{Concat([i \in 1..MaxValues |-> BigEndianBytes(vs[i])], 1),
            Concat([i \in 1..MaxValues |-> LittleEndianBytes(vs[i])], 1)} :
                vs \in [1..MaxValues -> SmallValues]}

\* five values and a sixth group that the rejecting decoder refuses
LateRejectedStream ==
    <<0, 0, 0, 5, 0, 0, 0, 6, 0, 0, 0, 7, 0, 0, 0, 8, 0, 0, 0, 9, 0, 255, 0, 10>>

LongStreams ==
    {s \o Slice(s, 0, MaxTail) :
        s \in {BigEndianStream, LittleEndianStream, WideStream, RejectedStream}}
    \cup {LateRejectedStream}
    \cup ValueStreams

\* the chunks that may follow the bytes written so far
Chunks(written) ==
    (IF Len(written) <= MaxStream /\ \A i \in 1..Len(written) : written[i] \in Bytes
     THEN SeqsUpTo(Bytes, MaxStream - Len(written))
     ELSE {})
    \cup UNION {{Slice(t, Len(written), n) : n \in Len(written)..Len(t)} :
                    t \in {u \in LongStreams : IsPrefix(written, u)}}

(***************************************************************************)
(* The state machine                                                       *)
(***************************************************************************)
\* the squared deviations are evaluated exactly for values up to MaxExact
MaxExact == 1024

Small(win) == \A i \in 1..Len(win) : -MaxExact <= win[i] /\ win[i] <= MaxExact

NoQuery == [op |-> "none", panic |-> FALSE, out |-> <<>>]

\* the argument of the one call of from_raw on its own: a sequence over
\* RawBytes, or the four bytes a value of RoundTripValues is stored in
RoundTripValues ==
    {I32_MIN, -305419896, -16777216, -65536, -256, -1, 0, 1, 255, 256, 65535,
     305419896, I32_MAX}

to_bytes(e, v) ==
    LET b0 == v % 256
        b1 == (v \div 256) % 256
        b2 == (v \div 65536) % 256
        b3 == (v \div 16777216) % 256
    IN  IF e = "LittleEndian" THEN <<b0, b1, b2, b3>> ELSE <<b3, b2, b1, b0>>

RawInputs(e) == SeqsUpTo(RawBytes, MaxRaw) \cup {to_bytes(e, v) : v \in RoundTripValues}

Fresh ==
    /\ stream = <<>>
    /\ intermediate_buffer = <<>>
    /\ buffer = <<>>
    /\ result = RetNone
    /\ reconstructor = [intermediate_buffer |-> <<>>, buffer |-> <<>>]
    /\ r_buffer = <<>>
    /\ r_result = RetNone
    /\ decoded = <<>>
    /\ r_decoded = <<>>
    /\ decode_failed = [default |-> FALSE, reconstructor |-> FALSE]
    /\ decode_lens = [default |-> <<>>, reconstructor |-> <<>>]
    /\ consumed = [value |-> None, rest |-> <<>>]
    /\ peak = [default |-> 0, reconstructor |-> 0]
    /\ standalone = [intermediate_buffer |-> <<>>, buffer |-> <<>>]
    /\ s_result = RetNone
    /\ query = NoQuery

Init ==
    /\ E \in ShippedSchemes
    /\ Fresh
    /\ call = [done |-> FALSE, raw |-> <<>>, out |-> Err]

InitE ==
    /\ E \in AllSchemes
    /\ Fresh
    /\ call = [done |-> FALSE, raw |-> <<>>, out |-> Err]

\* the queries do not look at the bytes: one byte order is enough
InitQ ==
    /\ E = "BigEndian"
    /\ Fresh
    /\ call = [done |-> FALSE, raw |-> <<>>, out |-> Err]

InitRaw ==
    /\ E \in ShippedSchemes
    /\ Fresh
    /\ call \in {[done |-> FALSE, raw |-> raw, out |-> Err] : raw \in RawInputs(E)}

\* one call of write(chunk) on each build that has not panicked, and on the
\* Reconstructor used on its own
Write(chunk) ==
    /\ result.kind # "Panic" \/ r_result.kind # "Panic"
    /\ stream' = stream \o chunk
    /\ \E w \in {write(E, intermediate_buffer, buffer, chunk)},
          rw \in {r_write(E, reconstructor, r_buffer, chunk)},
          sw \in {Reconstructor_write(E, standalone, chunk)} :
         /\ IF result.kind # "Panic"
            THEN /\ intermediate_buffer' = w.intermediate_buffer
                 /\ buffer' = w.buffer
                 /\ result' = w.result
                 /\ decoded' = decoded \o w.values
                 /\ consumed' = w.consumed
            ELSE UNCHANGED <<intermediate_buffer, buffer, result, decoded, consumed>>
         /\ IF r_result.kind # "Panic"
            THEN /\ reconstructor' = rw.reconstructor
                 /\ r_buffer' = rw.buffer
                 /\ r_result' = rw.result
                 /\ r_decoded' = r_decoded \o rw.values
            ELSE UNCHANGED <<reconstructor, r_buffer, r_result, r_decoded>>
         /\ IF s_result.kind # "Panic"
            THEN /\ standalone' = sw.rec
                 /\ s_result' = sw.result
            ELSE UNCHANGED <<standalone, s_result>>
         /\ decode_failed' =
              [default |-> IF result.kind # "Panic" THEN w.failed
                           ELSE decode_failed.default,
               reconstructor |-> IF r_result.kind # "Panic" THEN rw.failed
                                 ELSE decode_failed.reconstructor]
         /\ decode_lens' =
              [default |-> IF result.kind # "Panic" THEN w.lens
                           ELSE decode_lens.default,
               reconstructor |-> IF r_result.kind # "Panic" THEN rw.lens
                                 ELSE decode_lens.reconstructor]
         /\ peak' =
              [default |-> IF result.kind # "Panic" THEN w.peak ELSE peak.default,
               reconstructor |-> IF r_result.kind # "Panic" THEN rw.peak
                                 ELSE peak.reconstructor]
    /\ query' = NoQuery
    /\ UNCHANGED <<E, call>>

\* Reconstructor::flush on the Reconstructor used on its own
Flush ==
    /\ s_result.kind # "Panic"
    /\ standalone' = Reconstructor_flush(standalone)
    /\ s_result' = RetFlushed
    /\ UNCHANGED <<E, stream, intermediate_buffer, buffer, result,
                   reconstructor, r_buffer, r_result, decoded, r_decoded,
                   decode_failed, decode_lens, consumed, peak, query, call>>

\* what a query leaves alone: everything but the record of the query
QueryFrame ==
    UNCHANGED <<E, stream, intermediate_buffer, buffer, result,
                reconstructor, r_buffer, r_result, decoded, r_decoded,
                decode_failed, decode_lens, consumed, peak,
                standalone, s_result, call>>

\* the results of the queries as sequences of integers: a length; the
\* mantissa and exponent of the converted sum and the divisor; the
\* numerator and denominator of the variance
len_out(win) == <<len(win)>>

mean_out(m) == IF m.panic THEN <<>> ELSE <<m.num.m, m.num.e, m.den>>

std_dev_out(sd) == IF sd.panic THEN <<>> ELSE <<sd.num, sd.den>>

\* RollingStats::len(&self)
Length ==
    /\ result.kind # "Panic"
    /\ query' = [op |-> "len", panic |-> FALSE, out |-> len_out(buffer)]
    /\ QueryFrame

\* a mean() that takes the values out of the window it sums
Mean_draining(overflow_checks) ==
    /\ result.kind # "Panic"
    /\ \E m \in {mean(buffer, overflow_checks)} :
         query' = [op |-> "mean",
                   panic |-> m.panic, out |-> mean_out(m)]
    /\ buffer' = <<>>
    /\ UNCHANGED <<E, stream, intermediate_buffer, result,
                   reconstructor, r_buffer, r_result, decoded, r_decoded,
                   decode_failed, decode_lens, consumed, peak,
                   standalone, s_result, call>>

\* Statistics::mean(&self), in a build with or without overflow checks
Mean(overflow_checks) ==
    /\ result.kind # "Panic"
    /\ \E m \in {mean(buffer, overflow_checks)} :
         query' = [op |-> "mean",
                   panic |-> m.panic, out |-> mean_out(m)]
    /\ QueryFrame

\* Statistics::std_dev(&self); the squared deviations are evaluated for the
\* windows of values up to MaxExact
StdDev(overflow_checks) ==
    /\ result.kind # "Panic"
    /\ Small(buffer)
    /\ \E sd \in {std_dev(buffer, overflow_checks)} :
         query' = [op |-> "std_dev",
                   panic |-> sd.panic, out |-> std_dev_out(sd)]
    /\ QueryFrame

\* Statistics::rand(&self): the sample is drawn from the thread's random
\* source; the record keeps the parameters the distribution is built from
Rand(overflow_checks) ==
    /\ result.kind # "Panic"
    /\ Small(buffer)
    /\ \E m \in {mean(buffer, overflow_checks)},
          sd \in {std_dev(buffer, overflow_checks)} :
         query' = [op |-> "rand",
                   panic |-> m.panic \/ sd.panic,
                   out |-> mean_out(m) \o std_dev_out(sd)]
    /\ QueryFrame

\* one call of from_raw on its own
Decode ==
    /\ ~call.done
    /\ call' = [call EXCEPT !.done = TRUE, !.out = from_raw(E, call.raw)]
    /\ UNCHANGED <<E, stream, intermediate_buffer, buffer, result,
                   reconstructor, r_buffer, r_result, decoded, r_decoded,
                   decode_failed, decode_lens, consumed, peak,
                   standalone, s_result, query>>

Next == \E chunk \in Chunks(stream) : Write(chunk)

\* the writes, and flushes of the Reconstructor used on its own
NextR == (\E chunk \in Chunks(stream) : Write(chunk)) \/ Flush

\* the writes, and queries of the window
NextQ ==
    \/ \E chunk \in Chunks(stream) : Write(chunk)
    \/ Length
    \/ \E overflow_checks \in BOOLEAN : Mean(overflow_checks)
    \/ \E overflow_checks \in BOOLEAN : StdDev(overflow_checks)
    \/ \E overflow_checks \in BOOLEAN : Rand(overflow_checks)

Spec == Init /\ [][Next]_vars

SpecE == InitE /\ [][Next]_vars

SpecR == Init /\ [][NextR]_vars

SpecQ == InitQ /\ [][NextQ]_vars

SpecRaw == InitRaw /\ [][Decode]_vars

(***************************************************************************)
(* What the claims speak of.                                               *)
(***************************************************************************)
\* the number of complete values in the bytes written so far
N == Len(stream) \div TypeSize

\* the k-th value of the stream (k = 1 is the first): bytes [(k-1)w, kw)
StreamValue(k) == from_raw(E, Slice(stream, (k - 1) * TypeSize, k * TypeSize)).v

\* the bytes after the last complete value
StreamTail == Slice(stream, N * TypeSize, Len(stream))

\* the last chunk written
LastChunk == Slice(stream', Len(stream), Len(stream'))

RECURSIVE Sum(_, _)
Sum(win, k) == IF k > Len(win) THEN 0 ELSE win[k] + Sum(win, k + 1)

RECURSIVE SumOfSquares(_, _)
SumOfSquares(win, k) ==
    IF k > Len(win) THEN 0 ELSE win[k] * win[k] + SumOfSquares(win, k + 1)

\* integers beyond 32 bits: hi * 65536 + lo with 0 <= lo < 65536
Wide(x) == [hi |-> x \div 65536, lo |-> x % 65536]

RECURSIVE SumHi(_, _)
SumHi(win, k) == IF k > Len(win) THEN 0 ELSE (win[k] \div 65536) + SumHi(win, k + 1)

RECURSIVE SumLo(_, _)
SumLo(win, k) == IF k > Len(win) THEN 0 ELSE (win[k] % 65536) + SumLo(win, k + 1)

\* the sum of the window's values in the integers
ArithmeticSum(win) ==
    [hi |-> SumHi(win, 1) + (SumLo(win, 1) \div 65536), lo |-> SumLo(win, 1) % 65536]

(***************************************************************************)
(* C1 - Chunking associativity: whatever the chunks the stream was written *)
(* in, the window and the leftover bytes are those a fresh instance holds  *)
(* after one write of the whole stream.                                    *)
(***************************************************************************)
C1_ChunkingAssociativity ==
    LET once == write(E, <<>>, <<>>, stream)
        r_once == r_write(E, [intermediate_buffer |-> <<>>, buffer |-> <<>>],
                          <<>>, stream)
    IN  /\ buffer = once.buffer
        /\ intermediate_buffer = once.intermediate_buffer
        /\ r_buffer = r_once.buffer
        /\ reconstructor.intermediate_buffer = r_once.reconstructor.intermediate_buffer

\* sixteen bytes whose last chunk was one byte long, completing a value
C1_Witness ==
    /\ Len(stream) = 4 * TypeSize
    /\ result = RetOk(1)
    /\ buffer = <<2, 3, 4>>
    /\ intermediate_buffer = <<>>

(***************************************************************************)
(* C2 - Leftover invariant: after every write the leftover buffer of       *)
(* either build holds fewer bytes than the value width.                    *)
(***************************************************************************)
C2_LeftoverInvariant ==
    /\ Len(intermediate_buffer) < TypeSize
    /\ Len(reconstructor.intermediate_buffer) < TypeSize

\* the largest leftover, after a write that also decoded a value
C2_Witness ==
    /\ Len(intermediate_buffer) = TypeSize - 1
    /\ Len(reconstructor.intermediate_buffer) = TypeSize - 1
    /\ Len(decoded) >= 1

(***************************************************************************)
(* C3 - Window bound: len() is in 0..WINDOW_SIZE after every write.        *)
(***************************************************************************)
C3_WindowBound ==
    /\ len(buffer) \in 0..WINDOW_SIZE
    /\ len(r_buffer) \in 0..WINDOW_SIZE

\* a full window after more than WINDOW_SIZE values were decoded
C3_Witness ==
    /\ len(buffer) = WINDOW_SIZE
    /\ len(r_buffer) = WINDOW_SIZE
    /\ Len(decoded) > WINDOW_SIZE

(***************************************************************************)
(* C4 - Most-recent retention: the window holds exactly the last           *)
(* min(N, WINDOW_SIZE) values of the stream, oldest first.                 *)
(***************************************************************************)
C4_MostRecentRetention ==
    LET n == Min(N, WINDOW_SIZE)
        recent == [i \in 1..n |-> StreamValue(N - n + i)]
    IN  buffer = recent /\ r_buffer = recent

\* capacity 3, values 1, 2, 3, 4: the window is 2, 3, 4 and the mean is 3
C4_Witness ==
    /\ decoded = <<1, 2, 3, 4>>
    /\ buffer = <<2, 3, 4>>
    /\ mean(buffer, TRUE).sum = 3 * mean(buffer, TRUE).den

(***************************************************************************)
(* C5 - Byte accounting: the values decoded so far are exactly the N       *)
(* complete groups of the stream, in order, and the leftover buffer holds  *)
(* exactly the bytes after them.                                           *)
(***************************************************************************)
C5_ByteAccounting ==
    LET values == [k \in 1..N |-> StreamValue(k)]
    IN  /\ decoded = values
        /\ r_decoded = values
        /\ intermediate_buffer = StreamTail
        /\ reconstructor.intermediate_buffer = StreamTail

\* two values decoded and two bytes of the third waiting
C5_Witness ==
    /\ Len(decoded) = 2
    /\ Len(intermediate_buffer) = 2
    /\ Len(stream) = 2 * TypeSize + 2

(***************************************************************************)
(* C6 - No backpressure: every write that succeeds returns the length of   *)
(* its chunk, and a write that only absorbs its chunk succeeds.            *)
(***************************************************************************)
C6_NoBackpressure ==
    [][/\ result'.kind = "Ok" => result'.n = Len(LastChunk)
       /\ r_result'.kind = "Ok" => r_result'.n = Len(LastChunk)
       /\ Len(intermediate_buffer) + Len(LastChunk) < TypeSize
            => result'.kind = "Ok" /\ r_result'.kind = "Ok"]_vars

\* an empty chunk written while two bytes wait
C6_Witness ==
    /\ result = RetOk(0)
    /\ r_result = RetOk(0)
    /\ Len(intermediate_buffer) = 2

(***************************************************************************)
(* C7 - Absorption without decode: a write whose chunk does not complete a *)
(* value appends the chunk to the leftover, decodes nothing and leaves the *)
(* window as it was.                                                       *)
(***************************************************************************)
C7_Absorption ==
    [][Len(intermediate_buffer) + Len(LastChunk) < TypeSize
        => /\ intermediate_buffer' = intermediate_buffer \o LastChunk
           /\ buffer' = buffer
           /\ decoded' = decoded
           /\ reconstructor'.intermediate_buffer
                = reconstructor.intermediate_buffer \o LastChunk
           /\ r_buffer' = r_buffer
           /\ r_decoded' = r_decoded]_vars

\* three bytes absorbed by a fresh instance, the last of them alone
C7_Witness ==
    /\ Len(stream) = 3
    /\ intermediate_buffer = stream
    /\ len(buffer) = 0
    /\ result = RetOk(1)

(***************************************************************************)
(* C8 - mean() is the arithmetic sum of the window's values over           *)
(* max(min(WINDOW_SIZE, len()), 1), and 0 for an empty window, without     *)
(* panic, in either build profile.                                         *)
(***************************************************************************)
C8_MeanIsArithmeticMean ==
    \A overflow_checks \in BOOLEAN :
        LET m == mean(buffer, overflow_checks)
        IN  /\ ~m.panic
            /\ Wide(m.sum) = ArithmeticSum(buffer)
            /\ m.den = Max(Min(WINDOW_SIZE, len(buffer)), 1)
            /\ (buffer = <<>> => m.sum = 0)

C10_DecodeFailureIsError ==
    /\ decode_failed.default => result.kind = "Err"
    /\ decode_failed.reconstructor => r_result.kind = "Err"

C12_StrategyEquivalence ==
    /\ r_result = result
    /\ r_buffer = buffer
    /\ reconstructor.intermediate_buffer = intermediate_buffer
    /\ reconstructor.buffer = <<>>

\* a value split over two writes, more than WINDOW_SIZE values in all, and
\* a partial value left over
C12_Witness ==
    /\ Len(stream) = 4 * TypeSize + 1
    /\ result = RetOk(3 * TypeSize)
    /\ consumed.value # None
    /\ r_buffer = <<StreamValue(2), StreamValue(3), StreamValue(4)>>
    /\ reconstructor.intermediate_buffer = <<stream[Len(stream)]>>

(***************************************************************************)
(* C13 - Queries are pure: len(), mean(), std_dev() and rand() leave the   *)
(* window and the leftover unchanged; a query's result is the one its      *)
(* function gives for the window, so a repeated query returns the same     *)
(* result; and the writes that follow are not affected: the window stays   *)
(* the last values of the stream and the leftover its trailing bytes.      *)
(***************************************************************************)
C13_QueriesArePure ==
    [][/\ query'.op # "none" =>
            /\ UNCHANGED <<buffer, intermediate_buffer, result, stream,
                           reconstructor, r_buffer, r_result>>
            /\ query'.op = "len" => query'.out = len_out(buffer')
            /\ query'.op = "mean" =>
                 \E overflow_checks \in BOOLEAN :
                     LET m == mean(buffer', overflow_checks)
                     IN  query'.panic = m.panic /\ query'.out = mean_out(m)
            /\ query'.op = "std_dev" =>
                 \E overflow_checks \in BOOLEAN :
                     LET sd == std_dev(buffer', overflow_checks)
                     IN  query'.panic = sd.panic /\ query'.out = std_dev_out(sd)
       /\ LET n1 == Len(stream') \div TypeSize
              n == Min(n1, WINDOW_SIZE)
          IN  /\ buffer' = [i \in 1..n |->
                              from_raw(E, Slice(stream', (n1 - n + i - 1) * TypeSize,
                                                (n1 - n + i) * TypeSize)).v]
              /\ intermediate_buffer' = Slice(stream', n1 * TypeSize, Len(stream'))]_vars

\* the mean 9 / 3 of the window 2, 3, 4 asked for while a partial value is
\* left over
C13_Witness ==
    /\ query.op = "mean"
    /\ query.out = <<9, 0, 3>>
    /\ buffer = <<2, 3, 4>>
    /\ intermediate_buffer # <<>>

(***************************************************************************)
(* C14 - Every invocation of the decoder is on a slice of exactly          *)
(* size_of::<T>() bytes, so with the shipped i32 decoders NotEnoughData is *)
(* never returned and no unwrap() of a decode result panics.               *)
(***************************************************************************)
C14_ExactWidthDecodeCalls ==
    /\ \A i \in DOMAIN decode_lens.default : decode_lens.default[i] = TypeSize
    /\ \A i \in DOMAIN decode_lens.reconstructor :
           decode_lens.reconstructor[i] = TypeSize
    /\ ~decode_failed.default /\ ~decode_failed.reconstructor
    /\ result.kind # "Panic" /\ r_result.kind # "Panic"

\* a write that decoded a reconstructed value and two whole groups and
\* kept trailing bytes
C14_Witness ==
    /\ decode_lens.default = <<TypeSize, TypeSize, TypeSize>>
    /\ decode_lens.reconstructor = <<TypeSize, TypeSize, TypeSize>>
    /\ consumed.value # None
    /\ intermediate_buffer # <<>>

C16_ConsumeResultShape ==
    [][LET L == Len(intermediate_buffer)
           raw == LastChunk
           offset == IF L > 0 THEN TypeSize - L ELSE 0
           r == (Len(raw) - offset) % TypeSize
       IN  /\ consumed'.value # None <=> (L > 0 /\ L + Len(raw) >= TypeSize)
           /\ L + Len(raw) < TypeSize =>
                 /\ consumed' = [value |-> None, rest |-> <<>>]
                 /\ intermediate_buffer' = intermediate_buffer \o raw
           /\ L + Len(raw) >= TypeSize =>
                 /\ L > 0 =>
                       consumed'.value =
                         Some(from_raw(E, intermediate_buffer
                                            \o Slice(raw, 0, TypeSize - L)).v)
                 /\ consumed'.rest = Slice(raw, offset, Len(raw) - r)
                 /\ Len(consumed'.rest) % TypeSize = 0
                 /\ intermediate_buffer' = Slice(raw, Len(raw) - r, Len(raw))]_vars

\* the second call of the test: three bytes left over, a chunk that
\* completes the value, holds two more and ends in one byte of the next
C16_Witness ==
    /\ result = RetOk(3 * TypeSize - 2)
    /\ Len(stream) = 3 * TypeSize + 1
    /\ consumed.value = Some(StreamValue(1))
    /\ Len(consumed.rest) = 2 * TypeSize
    /\ intermediate_buffer = <<stream[Len(stream)]>>

(***************************************************************************)
(* C17 - Reconstructor::write appends the values it decodes to its queue   *)
(* in stream order, after the values of earlier writes; flush() empties    *)
(* the queue and leaves the leftover bytes as they are, so that a value    *)
(* split over a flush is reconstructed by the next write.                  *)
(***************************************************************************)
C17_QueueAndFlush ==
    [][LET n1 == Len(stream') \div TypeSize
           new == [i \in 1..(n1 - N) |->
                     from_raw(E, Slice(stream', (N + i - 1) * TypeSize,
                                       (N + i) * TypeSize)).v]
       IN  IF s_result'.kind = "Flushed"
           THEN /\ standalone'.buffer = <<>>
                /\ standalone'.intermediate_buffer = standalone.intermediate_buffer
           ELSE /\ standalone'.buffer = standalone.buffer \o new
                /\ standalone'.intermediate_buffer
                     = Slice(stream', n1 * TypeSize, Len(stream'))]_vars

\* the stream 1, 2, 3, 4 of the test: the value 1 flushed away, and a last
\* write of ten bytes that completed the value 2 and appended 3 and 4
C17_Witness ==
    /\ stream = BigEndianStream
    /\ s_result = RetOk(10)
    /\ standalone.buffer = <<2, 3, 4>>
    /\ standalone.intermediate_buffer = <<>>

(***************************************************************************)
(* C18 - At every intermediate step of RollingStats::write the deque holds *)
(* at most WINDOW_SIZE values, at most WINDOW_SIZE + 1 between an append   *)
(* and its eviction, whatever the number of values the chunk decodes to.   *)
(***************************************************************************)
C18_NoGrowthBeyondCapacity ==
    /\ peak.default <= WINDOW_SIZE + 1
    /\ peak.reconstructor <= WINDOW_SIZE + 1

(***************************************************************************)
(* C19 - For every window reachable by writes of i32 values every partial  *)
(* sum of mean() stays within i32: the fold neither panics nor wraps, and  *)
(* its result is the sum of the window's values in the integers.           *)
(***************************************************************************)
C19_NoOverflowInMean ==
    /\ ~fold_add(buffer, 1, 0, TRUE).panic
    /\ Wide(fold_add(buffer, 1, 0, FALSE).sum) = ArithmeticSum(buffer)

====
